---- MODULE Spec2Model ----
(***************************************************************************)
(* The generic entity manager (EntityManager.jsx) and its transport        *)
(* (api.js) as a state machine.  One EntityManager instance is mounted     *)
(* with one of the page schemas; user events and network completions are   *)
(* delivered one at a time (single-threaded event loop).                   *)
(*                                                                         *)
(* A JavaScript string is a sequence of tokens (atomic substrings), so     *)
(* that template literals, Array.join and String.split are computed on     *)
(* the text and not assumed.  A JavaScript object is a function from       *)
(* field names to values.                                                  *)
(***************************************************************************)
EXTENDS Integers, Sequences, FiniteSets, TLC

VARIABLES
    props,           \* the schema the instance was mounted with
    phase,           \* "constructed" (before the mount effect) | "mounted" | "unmounted"
    entities,        \* useState([])
    formData,        \* useState({})
    loading,         \* useState(true)
    error,           \* useState("")
    isEditing,       \* useState(false)
    editId,          \* useState(null)
    editIdentifier,  \* useState({})
    pending,         \* the async handlers suspended at `await apiCall(...)`
    nreq,            \* number of requests issued so far
    applied,         \* the id of the fetchEntities call whose response entities holds
    peer,            \* the other page's instance: its props, state and suspended handlers
    budget,          \* requests the run may issue
    chat,            \* the ChatApp instance: its state and its suspended handlers
    dash,            \* the Dashboard instance: its state and its suspended handlers
    event            \* the event delivered by the last step

vars == <<props, phase, entities, formData, loading, error, isEditing,
          editId, editIdentifier, pending, nreq, applied, peer, budget, chat, dash, event>>

(***************************************************************************)
(* Bounds of the model.                                                    *)
(***************************************************************************)
\* requests one instance issues in a run
MaxRequests == 3

(***************************************************************************)
(* Strings and objects.                                                    *)
(***************************************************************************)
EmptyStr == << >>

EmptyObj == [f \in {} |-> EmptyStr]

Null == <<"null">>

\* obj[f] used as a string: undefined and null print as "" in Array.join
Get(obj, f) == IF f \in DOMAIN obj THEN obj[f] ELSE EmptyStr

\* JavaScript truthiness of obj[f] for string values
Truthy(obj, f) == f \in DOMAIN obj /\ obj[f] # EmptyStr

\* { ...obj, [f]: v }
Put(obj, f, v) == [g \in DOMAIN obj \cup {f} |-> IF g = f THEN v ELSE obj[g]]

RECURSIVE Join(_, _)
\* Array.prototype.join: the elements in order, sep between neighbours
Join(strs, sep) ==
    IF Len(strs) = 0 THEN EmptyStr
    ELSE IF Len(strs) = 1 THEN strs[1]
    ELSE strs[1] \o sep \o Join(Tail(strs), sep)

\* Array.prototype.map over a sequence of field names
MapFields(fields, obj) == [i \in 1..Len(fields) |-> Get(obj, fields[i])]

RECURSIVE SplitHead(_, _)
\* s.split(sep)[0]: the tokens before the first sep
SplitHead(s, sep) ==
    IF Len(s) = 0 \/ s[1] = sep THEN EmptyStr
    ELSE <<s[1]>> \o SplitHead(Tail(s), sep)

Range(s) == {s[i] : i \in 1..Len(s)}

(***************************************************************************)
(* new Date(s).toISOString().split("T")[0]                                 *)
(* A timestamp is <<day, "T", hour, ":00:00", zone>>, a date-only string   *)
(* is <<day>>; anything else is an invalid date.                           *)
(***************************************************************************)
DayToks == <<"2024-03-03", "2024-03-04", "2024-03-05", "2024-03-06", "2024-03-07">>

HourToks == <<"00", "01", "02", "03", "04", "05", "06", "07", "08", "09", "10", "11",
              "12", "13", "14", "15", "16", "17", "18", "19", "20", "21", "22", "23">>

\* minutes-free UTC offsets, in hours east of Greenwich
ZoneHours(z) == CASE z = "Z" -> 0 [] z = "+02:00" -> 2 [] z = "-02:00" -> 0 - 2 [] OTHER -> 99

IndexOf(toks, t) == IF t \in Range(toks) THEN CHOOSE i \in 1..Len(toks) : toks[i] = t ELSE 0

IsDateOnly(s) == Len(s) = 1 /\ IndexOf(DayToks, s[1]) # 0

IsTimestamp(s) ==
    /\ Len(s) = 5
    /\ IndexOf(DayToks, s[1]) # 0
    /\ s[2] = "T"
    /\ IndexOf(HourToks, s[3]) # 0
    /\ s[4] = ":00:00"
    /\ ZoneHours(s[5]) # 99

\* new Date(s) is a valid date
IsValidDate(s) == IsDateOnly(s) \/ IsTimestamp(s)

\* new Date(s).getTime(), in hours; a date-only string is midnight UTC
ParseDate(s) ==
    IF IsDateOnly(s) THEN IndexOf(DayToks, s[1]) * 24
    ELSE IndexOf(DayToks, s[1]) * 24 + (IndexOf(HourToks, s[3]) - 1) - ZoneHours(s[5])

\* Date.prototype.toISOString: always in UTC
ToISOString(t) == <<DayToks[t \div 24], "T", HourToks[(t % 24) + 1], ":00:00.000", "Z">>

\* handleEdit's conversion of a date field
NormalizeDate(s) == SplitHead(ToISOString(ParseDate(s)), "T")

(***************************************************************************)
(* The page schemas: the props of EntityManager.                           *)
(***************************************************************************)
Field(name, type, required) == [name |-> name, type |-> type, required |-> required]

SupplierSchema ==
    [ entityName |-> <<"Supplier">>,
      endpoint |-> <<"/suppliers">>,
      idField |-> "supplier_id",
      uniqueIdentifierFields |-> <<"supplier_id">>,
      formFields |-> << Field("supplier_id", "text", TRUE),
                        Field("supplier_name", "text", TRUE),
                        Field("contact_person", "text", FALSE),
                        Field("contact_email", "email", FALSE),
                        Field("contact_phone", "text", FALSE),
                        Field("supplier_location_id", "text", TRUE) >> ]

StoreLimitSchema ==
    [ entityName |-> <<"Store Limit">>,
      endpoint |-> <<"/store_limits">>,
      idField |-> "product_id",
      uniqueIdentifierFields |-> <<"product_id", "location_id">>,
      formFields |-> << Field("product_id", "text", TRUE),
                        Field("location_id", "text", TRUE),
                        Field("base_limit", "number", TRUE),
                        Field("max_limit", "number", TRUE) >> ]

RawMaterialCostSchema ==
    [ entityName |-> <<"Raw Material Cost">>,
      endpoint |-> <<"/raw_material_costs">>,
      idField |-> "product_id",
      uniqueIdentifierFields |-> <<"product_id", "supplier_id", "effective_date">>,
      formFields |-> << Field("product_id", "text", TRUE),
                        Field("supplier_id", "text", TRUE),
                        Field("cost_per_unit", "number", TRUE),
                        Field("currency", "text", FALSE),
                        Field("effective_date", "date", TRUE) >> ]

Schemas == {SupplierSchema, StoreLimitSchema, RawMaterialCostSchema}

FieldNames(p) == {p.formFields[i].name : i \in 1..Len(p.formFields)}

FieldsOfType(p, t) == {p.formFields[i].name : i \in {j \in 1..Len(p.formFields) : p.formFields[j].type = t}}

RequiredFields(p) == {p.formFields[i].name : i \in {j \in 1..Len(p.formFields) : p.formFields[j].required}}

(***************************************************************************)
(* The backend's records: what a GET of the endpoint can return.           *)
(***************************************************************************)
\* the second supplier was created with the id SUP/002 typed into the form
SupplierRecords ==
    { [ _id |-> <<"65f0a1">>, supplier_id |-> <<"SUP001">>, supplier_name |-> <<"Silicon Inc.">>,
        supplier_location_id |-> <<"LOC001">> ],
      [ _id |-> <<"65f0a2">>, supplier_id |-> <<"SUP", "/", "002">>, supplier_name |-> <<"Acme">>,
        contact_email |-> <<"john@example.com">>, supplier_location_id |-> <<"LOC002">> ] }

StoreLimitRecords ==
    { [ _id |-> <<"65f0b1">>, product_id |-> <<"PRD003">>, location_id |-> <<"LOC004">>,
        base_limit |-> <<"10">>, max_limit |-> <<"100">> ],
      [ _id |-> <<"65f0b2">>, product_id |-> <<"PRD001">>, location_id |-> <<"LOC004">>,
        base_limit |-> <<"5">>, max_limit |-> <<"50">> ] }

RawMaterialCostRecords ==
    { [ _id |-> <<"65f0c1">>, product_id |-> <<"PRD001">>, supplier_id |-> <<"SUP001">>,
        cost_per_unit |-> <<"10.5">>, currency |-> <<"USD">>,
        effective_date |-> <<"2024-03-05", "T", "00", ":00:00", "Z">> ],
      [ _id |-> <<"65f0c2">>, product_id |-> <<"PRD001">>, supplier_id |-> <<"SUP002">>,
        cost_per_unit |-> <<"12">>, currency |-> <<"EUR">>,
        effective_date |-> <<"2024-03-05", "T", "00", ":00:00", "+02:00">> ] }

RecordsOf(p) ==
    CASE p = SupplierSchema -> SupplierRecords
      [] p = StoreLimitSchema -> StoreLimitRecords
      [] OTHER -> RawMaterialCostRecords

\* the GET responses: the backend's records, each present or not
ServerLists(p) ==
    LET a == CHOOSE r \in RecordsOf(p) : Get(r, "_id")[1] \in {"65f0a1", "65f0b1", "65f0c1"}
        b == CHOOSE r \in RecordsOf(p) : r # a
    IN  {<< >>, <<a>>, <<b>>, <<a, b>>}

\* the inputs the user types into: the ones a submit needs filled
InputNames(p) == RequiredFields(p)

\* what the user types into a field
TypedValue(p, name) ==
    IF name \in FieldsOfType(p, "date") THEN <<"2024-03-06">>
    ELSE IF name \in FieldsOfType(p, "number") THEN <<"7">>
    ELSE <<"NEW">>

(***************************************************************************)
(* The transport: apiCall of api.js.                                       *)
(***************************************************************************)
API_BASE_URL == <<"http://localhost:5000/api">>

NoData == << >>

\* the request fetch() is called with; data is NoData (null) or <<object>>
ApiRequest(endpoint, method, data) ==
    [method |-> method, url |-> API_BASE_URL \o endpoint, body |-> data]

\* A response of the backend: net = FALSE when fetch() itself rejects; else
\* the status is ok or not, the body parses as JSON or not, and a parsed
\* body holds an error field (EmptyStr when it has none) and a payload.
Response(net, ok, parses, err, data) ==
    [net |-> net, ok |-> ok, parses |-> parses, error |-> err, data |-> data]

Thrown(msg) == [threw |-> TRUE, message |-> msg, value |-> << >>]

Returned(v) == [threw |-> FALSE, message |-> EmptyStr, value |-> v]

\* faulty variant: the body's error field is ignored
StatusErrorMessage_IgnoresBody(resp) == <<"Something went wrong">>

\* the message of the Error thrown for a non-ok status
StatusErrorMessage(resp) ==
    IF resp.error # EmptyStr THEN resp.error ELSE <<"Something went wrong">>

\* the try block of apiCall for a response: fetch rejects, response.json()
\* rejects, the status is not ok, or the parsed body is returned
Attempt(resp) ==
    IF ~resp.net THEN Thrown(<<"Failed to fetch">>)
    ELSE IF ~resp.parses THEN Thrown(<<"Unexpected end of JSON input">>)
    ELSE IF ~resp.ok THEN Thrown(StatusErrorMessage(resp))
    ELSE Returned(resp.data)

\* console.error(`API Call Error (${method} ${url}):`, error)
LogEntry(request, msg) ==
    [text |-> <<"API Call Error (", request.method, " ">> \o request.url \o <<"):">>,
     error |-> msg]

\* faulty variant: only the Error thrown for a status is logged
Logged_StatusOnly(request, resp, out) ==
    IF out.threw /\ resp.net /\ resp.parses THEN <<LogEntry(request, out.message)>> ELSE << >>

\* what the catch block of apiCall writes to the console
Logged(request, resp, out) ==
    IF out.threw THEN <<LogEntry(request, out.message)>> ELSE << >>

\* the outcome of `await apiCall(...)` for a response: what the try block
\* threw or returned, the catch block rethrowing what it logged
apiCall(request, resp) ==
    LET out == Attempt(resp)
    IN  [threw |-> out.threw, message |-> out.message, value |-> out.value,
         log |-> Logged(request, resp, out)]

\* the error messages a backend puts in a body
ServerErrors == {<<"duplicate">>}

FailureResponses ==
    {Response(FALSE, FALSE, FALSE, EmptyStr, << >>),
     Response(TRUE, FALSE, FALSE, EmptyStr, << >>),
     Response(TRUE, FALSE, TRUE, EmptyStr, << >>)}
    \cup {Response(TRUE, FALSE, TRUE, m, << >>) : m \in ServerErrors}

\* a success status with an empty body (204 No Content)
NoContent == Response(TRUE, TRUE, FALSE, EmptyStr, << >>)

\* what the backend can answer to a request of this instance; a DELETE may
\* be answered without a body
Responses(p, r) ==
    FailureResponses \cup
    IF r.method = "GET"
    THEN {Response(TRUE, TRUE, TRUE, EmptyStr, l) : l \in ServerLists(p)}
    ELSE IF r.method = "DELETE"
    THEN {Response(TRUE, TRUE, TRUE, EmptyStr, << >>), NoContent}
    ELSE {Response(TRUE, TRUE, TRUE, EmptyStr, << >>)}

(***************************************************************************)
(* The component.                                                          *)
(***************************************************************************)
\* the state a handler is invoked in
UiState ==
    [entities |-> entities, formData |-> formData, isEditing |-> isEditing,
     editId |-> editId, editIdentifier |-> editIdentifier]

\* an async handler suspended at its await: the request it waits for, the
\* argument it was invoked with (the row, for handleDelete) and the state it
\* was invoked in
Call(op, request, arg) ==
    [id |-> nreq + 1, op |-> op, request |-> request, arg |-> arg, atIssue |-> UiState]

\* the event a step delivers: a user event, or the completion of a call (of
\* a request of that method) with the backend's response
Event(op, method, resp) ==
    [op |-> op, method |-> method, resp |-> resp, thrown |-> << >>, log |-> << >>]

\* the event of a continuation: the call resumed with the outcome res of its
\* apiCall, <<message>> when it threw, and what apiCall logged
Settled(op, c, resp, res) ==
    [op |-> op, method |-> c.request.method, resp |-> <<resp>>,
     thrown |-> IF res.threw THEN <<res.message>> ELSE << >>, log |-> res.log]

\* ChatApp after construction
ChatFresh ==
    [messages |-> << >>, input |-> EmptyStr, loading |-> FALSE, pending |-> {}]

\* Dashboard after construction
DashboardFresh ==
    [automationLog |-> << >>, loadingAutomation |-> FALSE, automationError |-> EmptyStr,
     optimizationRuns |-> << >>, orders |-> << >>, phase |-> "constructed", pending |-> {}]

\* the requests that the calls in flight issue when they succeed: a GET for
\* each mutation, two GETs for a run of the automation
Reserved ==
    Cardinality({c \in pending \cup peer.pending : c.op # "fetch"})
    + 2 * Cardinality({c \in dash.pending : c.op = "runAutomation"})

CanIssue(k) == nreq + Reserved + k <= budget

\* faulty variant: the identifier fields taken in another order than declared
IdentifierPath_Reordered(p, obj) ==
    LET vals == MapFields(p.uniqueIdentifierFields, obj)
    IN  Join([i \in 1..Len(vals) |-> vals[Len(vals) + 1 - i]], <<"/">>)

\* uniqueIdentifierFields.map((field) => obj[field]).join("/")
IdentifierPath(p, obj) == Join(MapFields(p.uniqueIdentifierFields, obj), <<"/">>)

\* `${endpoint}/${identifierPath}`
EntityEndpoint(p, obj) == p.endpoint \o <<"/">> \o IdentifierPath(p, obj)

FetchErrorText(p, msg) == <<"Failed to fetch ">> \o p.entityName \o <<"s: ">> \o msg

SaveErrorText(p, msg) == <<"Failed to save ">> \o p.entityName \o <<": ">> \o msg

DeleteErrorText(p, msg) == <<"Failed to delete ">> \o p.entityName \o <<": ">> \o msg

\* the browser lets the form submit only with every required input filled
FormValid(p, data) == \A f \in RequiredFields(p) : Truthy(data, f)

\* the TextField of the id field is disabled while editing
InputEnabled(p, name) == ~(isEditing /\ name = p.idField)

\* the rows are rendered, with their buttons, only when not loading
RowsShown == IF loading THEN {} ELSE Range(entities)

\* fetchEntities up to its await: the request of apiCall(endpoint)
FetchRequest == ApiRequest(props.endpoint, "GET", NoData)

\* faulty variant: the catch empties the table
AfterFetch_ClearsOnFailure(res) ==
    [entities |-> IF res.threw THEN << >> ELSE res.value,
     error |-> IF res.threw THEN FetchErrorText(props, res.message) ELSE error,
     loading |-> FALSE]

\* faulty variant: no finally, a failure leaves the spinner on
AfterFetch_NoFinally(res) ==
    [entities |-> IF res.threw THEN entities ELSE res.value,
     error |-> IF res.threw THEN FetchErrorText(props, res.message) ELSE error,
     loading |-> res.threw]

\* faulty variant: setLoading(false) is forgotten
AfterFetch_KeepsLoading(res) ==
    [entities |-> IF res.threw THEN entities ELSE res.value,
     error |-> IF res.threw THEN FetchErrorText(props, res.message) ELSE error,
     loading |-> loading]

\* faulty variant: a successful fetch clears the error
AfterFetch_ClearsErrorOnSuccess(res) ==
    [entities |-> IF res.threw THEN entities ELSE res.value,
     error |-> IF res.threw THEN FetchErrorText(props, res.message) ELSE EmptyStr,
     loading |-> FALSE]

\* fetchEntities after its await: catch and finally
AfterFetch(res) ==
    [entities |-> IF res.threw THEN entities ELSE res.value,
     error |-> IF res.threw THEN FetchErrorText(props, res.message) ELSE error,
     loading |-> FALSE]

\* faulty variant: the previous draft is not spread into the new one
AfterInputChange_DropsOthers(name, value) == [g \in {name} |-> value]

\* { ...prev, [name]: value }
AfterInputChange(name, value) == Put(formData, name, value)

\* faulty variant: the PUT is addressed with the identifier fields of the live draft
SubmitRequest_FromDraft ==
    IF isEditing
    THEN ApiRequest(EntityEndpoint(props, formData), "PUT", <<formData>>)
    ELSE ApiRequest(props.endpoint, "POST", <<formData>>)

\* faulty variant: the mode is not consulted
SubmitRequest_AlwaysPost == ApiRequest(props.endpoint, "POST", <<formData>>)

\* the request handleSubmit issues: a PUT to the captured identifier when
\* editing, a POST otherwise
SubmitRequest ==
    IF isEditing
    THEN ApiRequest(EntityEndpoint(props, editIdentifier), "PUT", <<formData>>)
    ELSE ApiRequest(props.endpoint, "POST", <<formData>>)

\* faulty variant: setEditIdentifier({}) is forgotten
AfterSubmitSuccess_KeepsIdentifier ==
    [formData |-> EmptyObj, isEditing |-> FALSE, editId |-> Null, editIdentifier |-> editIdentifier]

\* handleSubmit after a successful await, before its fetchEntities()
AfterSubmitSuccess ==
    [formData |-> EmptyObj, isEditing |-> FALSE, editId |-> Null, editIdentifier |-> EmptyObj]

\* faulty variant: the catch resets the form as the success path does
AfterSubmitFailure_ClearsDraft(msg) ==
    [formData |-> EmptyObj, isEditing |-> isEditing, editId |-> editId,
     editIdentifier |-> editIdentifier, error |-> SaveErrorText(props, msg)]

\* faulty variant: the catch leaves edit mode
AfterSubmitFailure_ResetsMode(msg) ==
    [formData |-> formData, isEditing |-> FALSE, editId |-> editId,
     editIdentifier |-> editIdentifier, error |-> SaveErrorText(props, msg)]

\* handleSubmit's catch
AfterSubmitFailure(msg) ==
    [formData |-> formData, isEditing |-> isEditing, editId |-> editId,
     editIdentifier |-> editIdentifier, error |-> SaveErrorText(props, msg)]

\* the draft handleEdit builds from the row
EditFormData(p, entity) ==
    [f \in DOMAIN entity |->
        IF f \in FieldsOfType(p, "date") /\ Truthy(entity, f)
        THEN NormalizeDate(entity[f])
        ELSE entity[f]]

\* the identifier handleEdit captures from the row
EditIdentifierOf(p, entity) ==
    [f \in Range(p.uniqueIdentifierFields) |-> Get(entity, f)]

AfterEdit(entity) ==
    [formData |-> EditFormData(props, entity), isEditing |-> TRUE,
     editId |-> Get(entity, "_id"), editIdentifier |-> EditIdentifierOf(props, entity)]

\* faulty variant: the DELETE is addressed with the identifier captured by handleEdit
DeleteRequest_FromEditIdentifier(entity) ==
    ApiRequest(EntityEndpoint(props, IF isEditing THEN editIdentifier ELSE entity),
               "DELETE", NoData)

\* the request handleDelete issues for a row
DeleteRequest(entity) == ApiRequest(EntityEndpoint(props, entity), "DELETE", NoData)

\* faulty variant: setError("") is forgotten
AfterCancelEdit_KeepsError ==
    [formData |-> EmptyObj, isEditing |-> FALSE, editId |-> Null,
     editIdentifier |-> EmptyObj, error |-> error]

\* faulty variant: setEditId(null) is forgotten
AfterCancelEdit_KeepsEditId ==
    [formData |-> EmptyObj, isEditing |-> FALSE, editId |-> editId,
     editIdentifier |-> EmptyObj, error |-> EmptyStr]

AfterCancelEdit ==
    [formData |-> EmptyObj, isEditing |-> FALSE, editId |-> Null,
     editIdentifier |-> EmptyObj, error |-> EmptyStr]

\* faulty variant: a setter of an unmounted instance still writes its state
SetState_AfterUnmount(old, new) == new

\* a useState setter called from a continuation: React drops the update
\* when the instance has been unmounted
SetState(old, new) == IF phase = "unmounted" THEN old ELSE new

\* the instance whose handlers and continuations the steps run
InstanceState ==
    [props |-> props, phase |-> phase, entities |-> entities, formData |-> formData,
     loading |-> loading, error |-> error, isEditing |-> isEditing, editId |-> editId,
     editIdentifier |-> editIdentifier, pending |-> pending, applied |-> applied]

\* an instance as its useState calls create it, before its mount effect
Fresh(p) ==
    [props |-> p, phase |-> "constructed", entities |-> << >>, formData |-> EmptyObj,
     loading |-> TRUE, error |-> EmptyStr, isEditing |-> FALSE, editId |-> Null,
     editIdentifier |-> EmptyObj, pending |-> {}, applied |-> 0]

\* another page of the navigation bar
OtherPage(p) == IF p = StoreLimitSchema THEN SupplierSchema ELSE StoreLimitSchema

\* the state after construction, in a run that may issue b requests
Constructed(b) ==
    /\ props \in Schemas
    /\ phase = "constructed"
    /\ entities = << >>
    /\ formData = EmptyObj
    /\ loading = TRUE
    /\ error = EmptyStr
    /\ isEditing = FALSE
    /\ editId = Null
    /\ editIdentifier = EmptyObj
    /\ pending = {}
    /\ nreq = 0
    /\ applied = 0
    /\ peer = Fresh(OtherPage(props))
    /\ budget = b
    /\ chat = ChatFresh
    /\ dash = DashboardFresh
    /\ event = Event("init", "", << >>)

Init == Constructed(MaxRequests)

\* useEffect(() => { fetchEntities(); }, [])
Mount ==
    /\ phase = "constructed"
    /\ peer.phase # "mounted"
    /\ CanIssue(1)
    /\ phase' = "mounted"
    /\ loading' = TRUE
    /\ error' = EmptyStr
    /\ pending' = pending \cup {Call("fetch", FetchRequest, << >>)}
    /\ nreq' = nreq + 1
    /\ event' = Event("mount", "", << >>)
    /\ UNCHANGED <<budget, chat, dash, peer, applied, props, entities, formData, isEditing, editId, editIdentifier>>

\* faulty variant: the table is module-level state, shared by the pages
FetchDone_SharedEntities ==
    /\ \E c \in {x \in pending : x.op = "fetch"} : \E resp \in Responses(props, c.request) :
         LET res == apiCall(c.request, resp)
             after == AfterFetch(res)
         IN  /\ entities' = SetState(entities, after.entities)
             /\ peer' = [peer EXCEPT !.entities = after.entities]
             /\ error' = SetState(error, after.error)
             /\ loading' = SetState(loading, after.loading)
             /\ applied' = SetState(applied, IF res.threw THEN applied ELSE c.id)
             /\ pending' = pending \ {c}
             /\ event' = Settled(IF res.threw THEN "fetchFail" ELSE "fetchOk", c, resp, res)
    /\ UNCHANGED <<budget, chat, dash, props, phase, formData, isEditing, editId, editIdentifier, nreq>>

\* fetchEntities resumed after its await
FetchDone ==
    /\ \E c \in {x \in pending : x.op = "fetch"} : \E resp \in Responses(props, c.request) :
         LET res == apiCall(c.request, resp)
             after == AfterFetch(res)
         IN  /\ entities' = SetState(entities, after.entities)
             /\ error' = SetState(error, after.error)
             /\ loading' = SetState(loading, after.loading)
             /\ applied' = SetState(applied, IF res.threw THEN applied ELSE c.id)
             /\ pending' = pending \ {c}
             /\ event' = Settled(IF res.threw THEN "fetchFail" ELSE "fetchOk", c, resp, res)
    /\ UNCHANGED <<budget, chat, dash, peer, props, phase, formData, isEditing, editId, editIdentifier, nreq>>

\* faulty variant: the identifier follows the inputs of the draft
handleInputChange_TracksDraft ==
    /\ phase = "mounted"
    /\ \E name \in InputNames(props) :
         /\ InputEnabled(props, name)
         /\ formData' = AfterInputChange(name, TypedValue(props, name))
         /\ formData' # formData
         /\ editIdentifier' = IF isEditing THEN EditIdentifierOf(props, formData')
                              ELSE editIdentifier
    /\ event' = Event("input", "", << >>)
    /\ UNCHANGED <<budget, chat, dash, peer, applied, props, phase, entities, loading, error, isEditing, editId, pending, nreq>>

\* the value typed replaces the field's; retyping the same value is no event
handleInputChange ==
    /\ phase = "mounted"
    /\ \E name \in InputNames(props) :
         /\ InputEnabled(props, name)
         /\ formData' = AfterInputChange(name, TypedValue(props, name))
         /\ formData' # formData
    /\ event' = Event("input", "", << >>)
    /\ UNCHANGED <<budget, chat, dash, peer, applied, props, phase, entities, loading, error, isEditing, editId,
                   editIdentifier, pending, nreq>>

\* handleSubmit up to its await
handleSubmit ==
    /\ phase = "mounted"
    /\ FormValid(props, formData)
    /\ CanIssue(2)
    /\ error' = EmptyStr
    /\ pending' = pending \cup {Call("submit", SubmitRequest, << >>)}
    /\ nreq' = nreq + 1
    /\ event' = Event("submit", "", << >>)
    /\ UNCHANGED <<budget, chat, dash, peer, applied, props, phase, entities, formData, loading, isEditing, editId, editIdentifier>>

\* handleSubmit resumed after its await
SubmitDone ==
    /\ \E c \in {x \in pending : x.op = "submit"} : \E resp \in Responses(props, c.request) :
         LET res == apiCall(c.request, resp)
             ok == AfterSubmitSuccess
             failed == AfterSubmitFailure(res.message)
         IN  IF res.threw
             THEN /\ formData' = SetState(formData, failed.formData)
                  /\ isEditing' = SetState(isEditing, failed.isEditing)
                  /\ editId' = SetState(editId, failed.editId)
                  /\ editIdentifier' = SetState(editIdentifier, failed.editIdentifier)
                  /\ error' = SetState(error, failed.error)
                  /\ pending' = pending \ {c}
                  /\ event' = Settled("submitFail", c, resp, res)
                  /\ UNCHANGED <<loading, nreq>>
             ELSE /\ formData' = SetState(formData, ok.formData)
                  /\ isEditing' = SetState(isEditing, ok.isEditing)
                  /\ editId' = SetState(editId, ok.editId)
                  /\ editIdentifier' = SetState(editIdentifier, ok.editIdentifier)
                  /\ loading' = SetState(loading, TRUE)
                  /\ error' = SetState(error, EmptyStr)
                  /\ pending' = (pending \ {c}) \cup {Call("fetch", FetchRequest, << >>)}
                  /\ nreq' = nreq + 1
                  /\ event' = Settled("submitOk", c, resp, res)
    /\ UNCHANGED <<budget, chat, dash, peer, applied, props, phase, entities>>

\* new Date(...).toISOString() throws on an invalid date, before any setter
handleEdit ==
    /\ phase = "mounted"
    /\ \E entity \in RowsShown :
         /\ \A f \in FieldsOfType(props, "date") : Truthy(entity, f) => IsValidDate(entity[f])
         /\ LET after == AfterEdit(entity)
            IN  /\ formData' = after.formData
                /\ isEditing' = after.isEditing
                /\ editId' = after.editId
                /\ editIdentifier' = after.editIdentifier
    /\ event' = Event("edit", "", << >>)
    /\ UNCHANGED <<budget, chat, dash, peer, applied, props, phase, entities, loading, error, pending, nreq>>

\* faulty variant: setError("") runs before window.confirm
handleDelete_ClearsErrorFirst ==
    /\ phase = "mounted"
    /\ \E entity \in RowsShown : \E confirmed \in BOOLEAN :
         IF confirmed
         THEN /\ CanIssue(2)
              /\ error' = EmptyStr
              /\ pending' = pending \cup {Call("delete", DeleteRequest(entity), <<entity>>)}
              /\ nreq' = nreq + 1
              /\ event' = Event("delete", "", << >>)
         ELSE /\ error' = EmptyStr
              /\ event' = Event("deleteDeclined", "", << >>)
              /\ UNCHANGED <<pending, nreq>>
    /\ UNCHANGED <<budget, chat, dash, peer, applied, props, phase, entities, formData, loading, isEditing, editId, editIdentifier>>

\* handleDelete up to its await; the user confirms or declines
handleDelete ==
    /\ phase = "mounted"
    /\ \E entity \in RowsShown : \E confirmed \in BOOLEAN :
         IF confirmed
         THEN /\ CanIssue(2)
              /\ error' = EmptyStr
              /\ pending' = pending \cup {Call("delete", DeleteRequest(entity), <<entity>>)}
              /\ nreq' = nreq + 1
              /\ event' = Event("delete", "", << >>)
         ELSE /\ event' = Event("deleteDeclined", "", << >>)
              /\ UNCHANGED <<error, pending, nreq>>
    /\ UNCHANGED <<budget, chat, dash, peer, applied, props, phase, entities, formData, loading, isEditing, editId, editIdentifier>>

\* faulty variant: a successful delete also drops the row from the table
DeleteDone_RemovesRow ==
    /\ \E c \in {x \in pending : x.op = "delete"} : \E resp \in Responses(props, c.request) :
         LET res == apiCall(c.request, resp)
         IN  IF res.threw
             THEN /\ error' = SetState(error, DeleteErrorText(props, res.message))
                  /\ pending' = pending \ {c}
                  /\ event' = Settled("deleteFail", c, resp, res)
                  /\ UNCHANGED <<entities, loading, nreq>>
             ELSE /\ entities' = SetState(entities, SelectSeq(entities, LAMBDA r : r # c.arg[1]))
                  /\ loading' = SetState(loading, TRUE)
                  /\ error' = SetState(error, EmptyStr)
                  /\ pending' = (pending \ {c}) \cup {Call("fetch", FetchRequest, << >>)}
                  /\ nreq' = nreq + 1
                  /\ event' = Settled("deleteOk", c, resp, res)
    /\ UNCHANGED <<budget, chat, dash, peer, applied, props, phase, formData, isEditing, editId, editIdentifier>>

\* handleDelete resumed after its await
DeleteDone ==
    /\ \E c \in {x \in pending : x.op = "delete"} : \E resp \in Responses(props, c.request) :
         LET res == apiCall(c.request, resp)
         IN  IF res.threw
             THEN /\ error' = SetState(error, DeleteErrorText(props, res.message))
                  /\ pending' = pending \ {c}
                  /\ event' = Settled("deleteFail", c, resp, res)
                  /\ UNCHANGED <<loading, nreq>>
             ELSE /\ loading' = SetState(loading, TRUE)
                  /\ error' = SetState(error, EmptyStr)
                  /\ pending' = (pending \ {c}) \cup {Call("fetch", FetchRequest, << >>)}
                  /\ nreq' = nreq + 1
                  /\ event' = Settled("deleteOk", c, resp, res)
    /\ UNCHANGED <<budget, chat, dash, peer, applied, props, phase, entities, formData, isEditing, editId, editIdentifier>>

\* the Cancel Edit button is rendered only while editing
handleCancelEdit ==
    /\ phase = "mounted"
    /\ isEditing
    /\ LET after == AfterCancelEdit
       IN  /\ formData' = after.formData
           /\ isEditing' = after.isEditing
           /\ editId' = after.editId
           /\ editIdentifier' = after.editIdentifier
           /\ error' = after.error
    /\ event' = Event("cancel", "", << >>)
    /\ UNCHANGED <<budget, chat, dash, peer, applied, props, phase, entities, loading, pending, nreq>>

Next ==
    \/ Mount
    \/ FetchDone
    \/ handleInputChange
    \/ handleSubmit
    \/ SubmitDone
    \/ handleEdit
    \/ handleDelete
    \/ DeleteDone
    \/ handleCancelEdit

Spec == Init /\ [][Next]_vars

\* The mount effect runs after the first render, and every request issued
\* is eventually answered or fails: the continuation of its handler runs.
FairSpec ==
    /\ Spec
    /\ WF_vars(Mount)
    /\ WF_vars(FetchDone)
    /\ WF_vars(SubmitDone)
    /\ WF_vars(DeleteDone)

\* the user navigates to another page: App renders another component and
\* React unmounts this instance; requests in flight are not aborted
Unmount ==
    /\ phase = "mounted"
    /\ phase' = "unmounted"
    /\ event' = Event("unmount", "", << >>)
    /\ UNCHANGED <<budget, chat, dash, peer, applied, props, entities, formData, loading, error, isEditing, editId,
                   editIdentifier, pending, nreq>>

LifecycleNext == Next \/ Unmount

\* the next step is one of the other page's instance: the page shown after
\* this one was left, or the page left whose requests are still in flight
Switch ==
    /\ \/ phase = "unmounted"
       \/ peer.phase = "unmounted" /\ peer.pending # {}
    /\ props' = peer.props
    /\ phase' = peer.phase
    /\ entities' = peer.entities
    /\ formData' = peer.formData
    /\ loading' = peer.loading
    /\ error' = peer.error
    /\ isEditing' = peer.isEditing
    /\ editId' = peer.editId
    /\ editIdentifier' = peer.editIdentifier
    /\ pending' = peer.pending
    /\ applied' = peer.applied
    /\ peer' = InstanceState
    /\ event' = Event("switch", "", << >>)
    /\ UNCHANGED <<nreq, budget, chat, dash>>

\* the steps of two pages; what the user types into a form is left out
PagesNext ==
    \/ Mount
    \/ FetchDone
    \/ handleSubmit
    \/ SubmitDone
    \/ handleEdit
    \/ handleDelete
    \/ DeleteDone
    \/ handleCancelEdit
    \/ Unmount
    \/ Switch

\* two pages of App: one is left (unmounted, its requests still in flight)
\* and the other is shown
PagesSpec == Init /\ [][PagesNext]_vars

\* the instance from construction to after its teardown
LifecycleSpec == Init /\ [][LifecycleNext]_vars

\* the steps of filling in the form and submitting it
ResubmitNext ==
    \/ Mount
    \/ FetchDone
    \/ handleInputChange
    \/ handleSubmit
    \/ SubmitDone

\* the form submitted again while its first submit is in flight: the run may
\* issue the second mutation and the list refresh that follows it
ResubmitSpec == Constructed(MaxRequests + 2) /\ [][ResubmitNext]_vars

(***************************************************************************)
(* The chat panel.                                                         *)
(***************************************************************************)
\* what the user types into the chat input
ChatInputs == {EmptyStr, <<" ">>, <<"\t", " ">>, <<"orders?">>, <<" ", "run", " ">>}

Whitespace == {" ", "\t", "\n"}

\* String.prototype.trim
RECURSIVE Trim(_)
Trim(s) ==
    IF s = EmptyStr THEN s
    ELSE IF Head(s) \in Whitespace THEN Trim(Tail(s))
    ELSE IF s[Len(s)] \in Whitespace THEN Trim(SubSeq(s, 1, Len(s) - 1))
    ELSE s

\* a response to POST /chat: fetch() rejects (net = FALSE), or the backend
\* answers with a status and a body that parses as JSON or not
ChatResponse(net, status, parses, reply) ==
    [net |-> net, status |-> status, parses |-> parses, data |-> [response |-> reply]]

\* response.ok
StatusOk(resp) == resp.status \in 200..299

ChatResponses ==
    {ChatResponse(FALSE, 0, FALSE, EmptyStr),
     ChatResponse(TRUE, 500, TRUE, EmptyStr),
     ChatResponse(TRUE, 200, FALSE, EmptyStr),
     ChatResponse(TRUE, 200, TRUE, <<"3 open orders">>)}

\* faulty variant: the senders are sent as they are kept
ChatHistoryForAPI_KeepsSender(messages) ==
    [i \in 1..Len(messages) |-> [sender |-> messages[i].sender, message |-> messages[i].message]]

\* chatHistoryForAPI
ChatHistoryForAPI(messages) ==
    [i \in 1..Len(messages) |->
        [sender |-> IF messages[i].sender = "user" THEN "user" ELSE "system",
         message |-> messages[i].message]]

\* the request handleSendMessage passes to fetch()
ChatRequest ==
    [method |-> "POST", url |-> API_BASE_URL \o <<"/chat">>,
     body |-> [message |-> chat.input, history |-> ChatHistoryForAPI(chat.messages)]]

\* the try block of handleSendMessage after its await: fetch rejects, the
\* status is not ok, response.json() rejects, or the reply is returned
ChatAttempt(resp) ==
    IF ~resp.net THEN Thrown(<<"Failed to fetch">>)
    ELSE IF ~StatusOk(resp) THEN Thrown(<<"HTTP error! status: ", ToString(resp.status)>>)
    ELSE IF ~resp.parses THEN Thrown(<<"Unexpected end of JSON input">>)
    ELSE Returned(resp.data.response)

\* the message handleSendMessage appends for the outcome of its try block
AgentMessage(out) ==
    [sender |-> "agent",
     message |-> IF out.threw
                 THEN <<"Error: ">> \o out.message \o <<". Please try again or check backend.">>
                 ELSE out.value]

\* onChange of the chat input; the input is disabled while loading
setInput ==
    /\ ~chat.loading
    /\ \E v \in ChatInputs : chat' = [chat EXCEPT !.input = v]
    /\ event' = Event("chatInput", "", << >>)
    /\ UNCHANGED <<budget, dash, peer, applied, props, phase, entities, formData, loading, error,
                   isEditing, editId, editIdentifier, pending, nreq>>

\* the send button clicked, or Enter pressed in the input: both are inert
\* while loading
handleSendMessage ==
    /\ ~chat.loading
    /\ IF Trim(chat.input) = EmptyStr
       THEN /\ UNCHANGED <<chat, nreq>>
            /\ event' = Event("sendEmpty", "", << >>)
       ELSE /\ CanIssue(1)
            /\ chat' = [chat EXCEPT
                           !.messages = Append(@, [sender |-> "user", message |-> chat.input]),
                           !.input = EmptyStr,
                           !.loading = TRUE,
                           !.pending = @ \cup {[id |-> nreq + 1, request |-> ChatRequest]}]
            /\ nreq' = nreq + 1
            /\ event' = Event("send", "POST", << >>)
    /\ UNCHANGED <<budget, dash, peer, applied, props, phase, entities, formData, loading, error,
                   isEditing, editId, editIdentifier, pending>>

\* handleSendMessage resumed after its await
SendDone ==
    /\ \E c \in chat.pending : \E resp \in ChatResponses :
         LET out == ChatAttempt(resp)
         IN  /\ chat' = [chat EXCEPT
                            !.messages = Append(@, AgentMessage(out)),
                            !.loading = FALSE,
                            !.pending = @ \ {c}]
             /\ event' = Event(IF out.threw THEN "sendFail" ELSE "sendOk", "POST", resp)
    /\ UNCHANGED <<budget, dash, peer, applied, props, phase, entities, formData, loading, error,
                   isEditing, editId, editIdentifier, pending, nreq>>

ChatNext ==
    \/ setInput
    \/ handleSendMessage
    \/ SendDone

\* the chat page shown
ChatSpec == Init /\ [][ChatNext]_vars

(***************************************************************************)
(* The dashboard.                                                          *)
(***************************************************************************)
\* the lists GET /optimization_runs answers with
RunLists ==
    {<< >>,
     <<[run_id |-> <<"RUN1">>, run_timestamp |-> <<"2024-03-04", "T", "09", ":00:00", "Z">>],
       [run_id |-> <<"RUN2">>, run_timestamp |-> <<"2024-03-05", "T", "09", ":00:00", "Z">>]>>}

\* the lists GET /orders answers with
OrderLists ==
    {<< >>,
     <<[order_id |-> <<"ORD1">>, order_date |-> <<"2024-03-04">>],
       [order_id |-> <<"ORD2">>, order_date |-> <<"2024-03-06">>],
       [order_id |-> <<"ORD3">>, order_date |-> <<"2024-03-04">>]>>}

\* the bodies POST /run_automation answers with
AutomationResults ==
    {[message |-> <<"Automation complete">>, log |-> <<<<"ordered PRD003">>, <<"2 routes planned">>>>],
     [message |-> <<"Nothing to do">>]}

DashboardResponses(c) ==
    FailureResponses \cup
    {Response(TRUE, TRUE, TRUE, EmptyStr, d) :
        d \in CASE c.op = "fetchOptimizationRuns" -> RunLists
                [] c.op = "fetchOrders" -> OrderLists
                [] OTHER -> AutomationResults}

RECURSIVE InsertByDate(_, _, _)
InsertByDate(x, s, f) ==
    IF s = << >> THEN <<x>>
    ELSE IF ParseDate(Head(s)[f]) >= ParseDate(x[f]) THEN <<Head(s)>> \o InsertByDate(x, Tail(s), f)
    ELSE <<x>> \o s

\* data.sort((a, b) => new Date(b[f]) - new Date(a[f])): latest first, the
\* sort is stable
RECURSIVE SortByDateDesc(_, _)
SortByDateDesc(s, f) ==
    IF s = << >> THEN s
    ELSE InsertByDate(s[Len(s)], SortByDateDesc(SubSeq(s, 1, Len(s) - 1), f), f)

\* an async function of the dashboard suspended at its await
DashboardCall(k, op, request) == [id |-> nreq + k, op |-> op, request |-> request]

\* fetchOptimizationRuns(); fetchOrders() up to their awaits
Refreshes ==
    {DashboardCall(1, "fetchOptimizationRuns", ApiRequest(<<"/optimization_runs">>, "GET", NoData)),
     DashboardCall(2, "fetchOrders", ApiRequest(<<"/orders">>, "GET", NoData))}

\* result.log || []
AutomationLogOf(result) == IF "log" \in DOMAIN result THEN result.log ELSE << >>

\* faulty variant: loadingAutomation is reset on success only
AfterAutomation_NoFinally(res) ==
    IF res.threw
    THEN [automationLog |-> dash.automationLog, automationError |-> res.message,
          loadingAutomation |-> dash.loadingAutomation]
    ELSE [automationLog |-> AutomationLogOf(res.value), automationError |-> dash.automationError,
          loadingAutomation |-> FALSE]

\* the state runAutomation leaves after its await: try, catch and finally
AfterAutomation(res) ==
    IF res.threw
    THEN [automationLog |-> dash.automationLog, automationError |-> res.message,
          loadingAutomation |-> FALSE]
    ELSE [automationLog |-> AutomationLogOf(res.value), automationError |-> dash.automationError,
          loadingAutomation |-> FALSE]

\* useEffect(() => { fetchOptimizationRuns(); fetchOrders(); }, [])
DashboardMount ==
    /\ dash.phase = "constructed"
    /\ CanIssue(2)
    /\ dash' = [dash EXCEPT !.phase = "mounted", !.pending = @ \cup Refreshes]
    /\ nreq' = nreq + 2
    /\ event' = Event("dashboardMount", "", << >>)
    /\ UNCHANGED <<budget, chat, peer, applied, props, phase, entities, formData, loading, error,
                   isEditing, editId, editIdentifier, pending>>

\* fetchOptimizationRuns resumed after its await; its catch only logs
RunsDone ==
    /\ \E c \in {x \in dash.pending : x.op = "fetchOptimizationRuns"} :
       \E resp \in DashboardResponses(c) :
         LET res == apiCall(c.request, resp)
         IN  /\ dash' = [dash EXCEPT
                            !.optimizationRuns =
                                IF res.threw THEN @ ELSE SortByDateDesc(res.value, "run_timestamp"),
                            !.pending = @ \ {c}]
             /\ event' = Settled(IF res.threw THEN "runsFail" ELSE "runsOk", c, resp, res)
    /\ UNCHANGED <<budget, chat, peer, applied, props, phase, entities, formData, loading, error,
                   isEditing, editId, editIdentifier, pending, nreq>>

\* fetchOrders resumed after its await; its catch only logs
OrdersDone ==
    /\ \E c \in {x \in dash.pending : x.op = "fetchOrders"} :
       \E resp \in DashboardResponses(c) :
         LET res == apiCall(c.request, resp)
         IN  /\ dash' = [dash EXCEPT
                            !.orders = IF res.threw THEN @ ELSE SortByDateDesc(res.value, "order_date"),
                            !.pending = @ \ {c}]
             /\ event' = Settled(IF res.threw THEN "ordersFail" ELSE "ordersOk", c, resp, res)
    /\ UNCHANGED <<budget, chat, peer, applied, props, phase, entities, formData, loading, error,
                   isEditing, editId, editIdentifier, pending, nreq>>

\* the automation button clicked; the button is disabled while
\* loadingAutomation
runAutomation ==
    /\ dash.phase = "mounted"
    /\ ~dash.loadingAutomation
    /\ CanIssue(3)
    /\ dash' = [dash EXCEPT
                   !.loadingAutomation = TRUE,
                   !.automationError = EmptyStr,
                   !.automationLog = << >>,
                   !.pending = @ \cup {DashboardCall(1, "runAutomation",
                                           ApiRequest(<<"/run_automation">>, "POST", NoData))}]
    /\ nreq' = nreq + 1
    /\ event' = Event("runAutomation", "", << >>)
    /\ UNCHANGED <<budget, chat, peer, applied, props, phase, entities, formData, loading, error,
                   isEditing, editId, editIdentifier, pending>>

\* runAutomation resumed after its await
AutomationDone ==
    /\ \E c \in {x \in dash.pending : x.op = "runAutomation"} :
       \E resp \in DashboardResponses(c) :
         LET res == apiCall(c.request, resp)
             after == AfterAutomation(res)
         IN  /\ dash' = [dash EXCEPT
                            !.automationLog = after.automationLog,
                            !.automationError = after.automationError,
                            !.loadingAutomation = after.loadingAutomation,
                            !.pending = (@ \ {c}) \cup IF res.threw THEN {} ELSE Refreshes]
             /\ nreq' = IF res.threw THEN nreq ELSE nreq + 2
             /\ event' = Settled(IF res.threw THEN "automationFail" ELSE "automationOk", c, resp, res)
    /\ UNCHANGED <<budget, chat, peer, applied, props, phase, entities, formData, loading, error,
                   isEditing, editId, editIdentifier, pending>>

DashboardNext ==
    \/ DashboardMount
    \/ RunsDone
    \/ OrdersDone
    \/ runAutomation
    \/ AutomationDone

\* the dashboard page shown; the run may issue the two fetches of the mount
\* effect, one run of the automation and its two refreshes
DashboardSpec == Constructed(MaxRequests + 2) /\ [][DashboardNext]_vars

(***************************************************************************)
(* Properties.                                                             *)
(***************************************************************************)
\* the calls a step completes and the calls it issues
Issued == pending' \ pending

\* the endpoint argument of apiCall: the url without the base
PathOf(request) == SubSeq(request.url, Len(API_BASE_URL) + 1, Len(request.url))

\* endpoint/v1, endpoint/v1/v2, endpoint/v1/v2/v3 for the identifier values
\* of r in the order the schema declares them
DeclaredPath(p, r) ==
    LET u == p.uniqueIdentifierFields
    IN  CASE Len(u) = 1 -> p.endpoint \o <<"/">> \o r[u[1]]
          [] Len(u) = 2 -> p.endpoint \o <<"/">> \o r[u[1]] \o <<"/">> \o r[u[2]]
          [] Len(u) = 3 -> p.endpoint \o <<"/">> \o r[u[1]] \o <<"/">> \o r[u[2]]
                                      \o <<"/">> \o r[u[3]]

\* the backend's record with a given _id: the row handleEdit was invoked on
RecordById(p, id) == CHOOSE r \in RecordsOf(p) : r._id = id

\* C1: the DELETE of deleteRecord(r) and the PUT of a submit after
\* beginEdit(r) go to endpoint "/" r[f1] "/" r[f2] ..., the identifier values
\* of r in declared order, for the 1-, 2- and 3-field schemas.
C1_IdentifierPath ==
    \A c \in pending :
        /\ c.op = "delete" =>
              /\ c.request.method = "DELETE"
              /\ PathOf(c.request) = DeclaredPath(props, c.arg[1])
        /\ (c.op = "submit" /\ c.request.method = "PUT") =>
              PathOf(c.request) = DeclaredPath(props, RecordById(props, c.atIssue.editId))

\* Scenario B: DELETE /store_limits/PRD003/LOC004 is in flight
C1_Witness ==
    /\ props = StoreLimitSchema
    /\ \E c \in pending :
          /\ c.op = "delete"
          /\ c.arg[1].product_id = <<"PRD003">>
          /\ c.request.method = "DELETE"
          /\ PathOf(c.request) = <<"/store_limits", "/", "PRD003", "/", "LOC004">>

\* C2: a submit in Edit mode issues its PUT to the path of the row beginEdit
\* was invoked on, whatever the draft's identifier fields hold by then.
C2_PutUsesCapturedIdentifier ==
    [][(event'.op = "submit" /\ isEditing) =>
          \A c \in Issued :
              /\ c.request.method = "PUT"
              /\ PathOf(c.request) = DeclaredPath(props, RecordById(props, editId))]_vars

\* a PUT in flight to /store_limits/PRD003/LOC004 whose body says location_id NEW
C2_Witness ==
    /\ props = StoreLimitSchema
    /\ \E c \in pending :
          /\ c.request.method = "PUT"
          /\ c.request.body[1].location_id = <<"NEW">>
          /\ PathOf(c.request) = <<"/store_limits", "/", "PRD003", "/", "LOC004">>

\* C3 as claimed: while the mode stays Edit, editIdentifier never changes.
C3_Original ==
    [][(isEditing /\ isEditing') => editIdentifier' = editIdentifier]_vars

\* C3 as amended: while the mode stays Edit, editIdentifier changes only by
\* beginEdit on a row; input changes, deletes and completions leave it.
C3_IdentifierFixedWhileEditing ==
    [][(isEditing /\ isEditing' /\ event'.op # "edit") =>
          editIdentifier' = editIdentifier]_vars

\* editing, after an input change that made the draft's identifier differ
C3_Witness ==
    /\ isEditing
    /\ event.op = "input"
    /\ \E f \in Range(props.uniqueIdentifierFields) : formData[f] # editIdentifier[f]

\* the backend answered, with a non-success status
RejectedByBackend(ev) == ev.resp # << >> /\ ev.resp[1].net /\ ~ev.resp[1].ok

\* C4 as claimed: when a fetch fails, records is what it was when that fetch
\* was invoked, error is non-empty and loading is false.
C4_Original ==
    [][\A c \in pending :
          (c \notin pending' /\ event'.op = "fetchFail") =>
              /\ entities' = c.atIssue.entities
              /\ error' # EmptyStr
              /\ ~loading']_vars

\* C4 as amended: the delivery of a fetch failure leaves records as it was
\* just before the delivery, sets error non-empty and loading false.
C4_FetchFailureKeepsRecords ==
    [][event'.op = "fetchFail" =>
          /\ entities' = entities
          /\ error' # EmptyStr
          /\ ~loading']_vars

\* a fetch has just failed over a table that holds rows
C4_Witness ==
    /\ event.op = "fetchFail"
    /\ entities # << >>
    /\ error # EmptyStr
    /\ ~loading

\* C5 as claimed: when a submit fails because the backend rejects it, draft,
\* mode and editIdentifier are what they were when the submit was invoked,
\* records is unchanged, no fetch is issued.
C5_Original ==
    [][\A c \in pending :
          (c \notin pending' /\ event'.op = "submitFail" /\ RejectedByBackend(event')) =>
              /\ formData' = c.atIssue.formData
              /\ isEditing' = c.atIssue.isEditing
              /\ editIdentifier' = c.atIssue.editIdentifier
              /\ entities' = entities
              /\ Issued = {}]_vars

\* C5 as amended: the delivery of a submit failure leaves draft, mode,
\* editIdentifier, editId and records as they were just before the delivery
\* and issues no request.
C5_SubmitFailureRetainsState ==
    [][event'.op = "submitFail" =>
          /\ formData' = formData
          /\ isEditing' = isEditing
          /\ editIdentifier' = editIdentifier
          /\ editId' = editId
          /\ entities' = entities
          /\ Issued = {}
          /\ nreq' = nreq]_vars

\* an Edit-mode submit has just failed and the draft is still there
C5_Witness ==
    /\ event.op = "submitFail"
    /\ isEditing
    /\ FormValid(props, formData)
    /\ error # EmptyStr

\* the backend rejected the request with a body {error: m}
RejectedWithError(ev) ==
    /\ ev.resp # << >>
    /\ ev.resp[1].net
    /\ ev.resp[1].parses
    /\ ~ev.resp[1].ok
    /\ ev.resp[1].error # EmptyStr

\* C6 as claimed: after a submit rejected with {error: m}, error is m.
C6_Original ==
    (event.op = "submitFail" /\ RejectedWithError(event)) => error = event.resp[1].error

\* C6 as amended: after a submit rejected with {error: m}, error is
\* "Failed to save <entityName>: " followed by m.
C6_ErrorIsPrefixedMessage ==
    (event.op = "submitFail" /\ RejectedWithError(event)) =>
        error = <<"Failed to save ">> \o props.entityName \o <<": ">> \o event.resp[1].error

\* Scenario C on the Supplier page
C6_Witness ==
    /\ props = SupplierSchema
    /\ event.op = "submitFail"
    /\ event.resp[1].error = <<"duplicate">>
    /\ error = <<"Failed to save ", "Supplier", ": ", "duplicate">>

\* C7: the delivery of a submit success empties the draft, sets mode Add,
\* clears editId and editIdentifier and issues exactly one request, a GET of
\* the endpoint; in Add mode and in Edit mode alike.
C7_SubmitSuccess ==
    [][event'.op = "submitOk" =>
          /\ formData' = EmptyObj
          /\ ~isEditing'
          /\ editId' = Null
          /\ editIdentifier' = EmptyObj
          /\ Cardinality(Issued) = 1
          /\ nreq' = nreq + 1
          /\ \A c \in Issued :
                /\ c.op = "fetch"
                /\ c.request.method = "GET"
                /\ PathOf(c.request) = props.endpoint
                /\ c.request.body = << >>]_vars

\* a PUT has just succeeded: the form is reset and one GET is in flight
C7_Witness ==
    /\ event.op = "submitOk"
    /\ event.method = "PUT"
    /\ formData = EmptyObj
    /\ ~isEditing
    /\ Cardinality({c \in pending : c.request.method = "GET"}) = 1

\* C8: a submit issues exactly one request: in Add mode a POST of the draft
\* to the endpoint, in Edit mode a PUT of the draft to the endpoint followed
\* by the joined editIdentifier values.
C8_SubmitVerb ==
    [][event'.op = "submit" =>
          /\ Cardinality(Issued) = 1
          /\ nreq' = nreq + 1
          /\ \A c \in Issued :
                /\ c.request.body = <<formData>>
                /\ IF isEditing
                   THEN /\ c.request.method = "PUT"
                        /\ PathOf(c.request) = DeclaredPath(props, editIdentifier)
                   ELSE /\ c.request.method = "POST"
                        /\ PathOf(c.request) = props.endpoint]_vars

\* Scenario A: a POST /suppliers of the three required fields is in flight
C8_Witness ==
    /\ props = SupplierSchema
    /\ event.op = "submit"
    /\ ~isEditing
    /\ \E c \in pending :
          /\ c.request.method = "POST"
          /\ PathOf(c.request) = <<"/suppliers">>
          /\ DOMAIN c.request.body[1] = {"supplier_id", "supplier_name", "supplier_location_id"}

\* C9: mode goes Add to Edit only by beginEdit and Edit to Add only by
\* cancelEdit or a submit success; after a submit success the mode is Add;
\* every other event leaves the mode.
C9_ModeTransitions ==
    [][/\ (~isEditing /\ isEditing') => event'.op = "edit"
       /\ (isEditing /\ ~isEditing') => event'.op \in {"cancel", "submitOk"}
       /\ event'.op = "submitOk" => ~isEditing'
       /\ event'.op = "edit" => isEditing'
       /\ event'.op = "cancel" => (isEditing /\ ~isEditing')]_vars

\* still editing right after a failed submit
C9_Witness ==
    /\ isEditing
    /\ event.op = "submitFail"
    /\ event.method = "PUT"

\* C10: cancelEdit empties draft, editIdentifier and error, sets mode Add,
\* issues and completes no request and leaves records and loading.
C10_CancelEdit ==
    [][event'.op = "cancel" =>
          /\ formData' = EmptyObj
          /\ ~isEditing'
          /\ editId' = Null
          /\ editIdentifier' = EmptyObj
          /\ error' = EmptyStr
          /\ pending' = pending
          /\ nreq' = nreq
          /\ entities' = entities
          /\ loading' = loading]_vars

\* an edit was cancelled while a request was in flight over a table with rows
C10_Witness ==
    /\ event.op = "cancel"
    /\ entities # << >>
    /\ pending # {}
    /\ error = EmptyStr
    /\ formData = EmptyObj

CompletedByBackend(ev) == ev.resp # << >> /\ ev.resp[1].net /\ ev.resp[1].ok

\* C12: the delivery of the response of a DELETE that the backend completed
\* with a success status, with a JSON body or with an empty body, issues a
\* fetchAll (a GET of the endpoint) and leaves error empty.
C12_DeleteSuccessRefreshes ==
    [][(event'.op \in {"deleteOk", "deleteFail"} /\ CompletedByBackend(event')) =>
          /\ error' = EmptyStr
          /\ \E c \in Issued :
                /\ c.op = "fetch"
                /\ c.request.method = "GET"
                /\ PathOf(c.request) = props.endpoint]_vars

\* a DELETE was answered 204 with no body: error is set, no fetch in flight
C12_Witness ==
    /\ event.op = "deleteFail"
    /\ event.resp = <<NoContent>>
    /\ error = DeleteErrorText(props, <<"Unexpected end of JSON input">>)
    /\ pending = {}

\* the fetchEntities calls suspended at their await
FetchesOutstanding == {c \in pending : c.op = "fetch"}

\* C13 as claimed: in every state, the initial one included, loading implies
\* that a fetchAll of this instance is outstanding.
C13_Original == loading => FetchesOutstanding # {}

\* C13 as amended: once the mount effect has run, loading implies that a
\* fetchAll of this instance is outstanding; before it, loading is true and
\* nothing is outstanding.
C13_LoadingImpliesFetch ==
    /\ phase = "mounted" => (loading => FetchesOutstanding # {})
    /\ phase = "constructed" => (loading /\ pending = {})

\* loading with two fetchAll calls overlapping
C13_Witness ==
    /\ phase = "mounted"
    /\ loading
    /\ Cardinality(FetchesOutstanding) = 2

\* C14: when every request issued is eventually completed, loading always
\* becomes false again, and once false it turns true only in a step that
\* invokes fetchAll (issues a GET of the endpoint).
C14_LoadingEnds ==
    /\ loading ~> ~loading
    /\ [][(~loading /\ loading') =>
             \E c \in Issued : c.op = "fetch" /\ c.request = FetchRequest]_vars

\* the last outstanding request, a fetch, has completed: the spinner is off
C14_Witness ==
    /\ event.op \in {"fetchOk", "fetchFail"}
    /\ nreq > 1
    /\ pending = {}
    /\ ~loading

\* C15 as claimed: right after a fetchAll completes successfully, records is
\* its response and error is empty, whatever completed since its issue.
C15_Original ==
    [][event'.op = "fetchOk" =>
          /\ entities' = event'.resp[1].data
          /\ error' = EmptyStr]_vars

\* C15 as amended: right after a fetchAll completes successfully, records is
\* its response, loading is false and error is what it was just before the
\* completion: the message of a submit, delete or fetch that failed since
\* the fetchAll was issued stays.
C15_FetchSuccessKeepsError ==
    [][event'.op = "fetchOk" =>
          /\ entities' = event'.resp[1].data
          /\ error' = error
          /\ ~loading'
          /\ Issued = {}]_vars

\* a fetch has just succeeded under the message of a submit that failed
\* while it was in flight
C15_Witness ==
    /\ event.op = "fetchOk"
    /\ entities = event.resp[1].data
    /\ entities # << >>
    /\ \E m \in {<<"duplicate">>, <<"Failed to fetch">>} : error = SaveErrorText(props, m)

\* C16: records changes only in the step that delivers a successful response
\* of a GET of the endpoint, and is then that response; submits, deletes,
\* their completions, beginEdit, cancelEdit and input changes leave it.
C16_RecordsOnlyByFetch ==
    [][/\ entities' # entities =>
             /\ event'.op = "fetchOk"
             /\ event'.method = "GET"
             /\ \E c \in pending : c \notin pending' /\ PathOf(c.request) = props.endpoint
       /\ event'.op = "fetchOk" => entities' = event'.resp[1].data
       /\ event'.op \in {"submit", "submitOk", "submitFail", "delete", "deleteDeclined",
                          "deleteOk", "deleteFail", "edit", "cancel", "input", "fetchFail"}
             => entities' = entities]_vars

\* the refresh after a successful delete has replaced the table by one row
C16_Witness ==
    /\ event.op = "fetchOk"
    /\ nreq = 3
    /\ pending = {}
    /\ Len(entities) = 1
    /\ entities = event.resp[1].data

C18_FetchesAppliedInOrder ==
    [][(event'.op = "fetchOk" /\ phase = "mounted") =>
          \A c \in pending : c \notin pending' => c.id > applied]_vars

\* every request has completed, the mount fetch last: records holds the
\* response of the first fetchAll although a later one was invoked
C18_Witness ==
    /\ phase = "mounted"
    /\ pending = {}
    /\ nreq = 3
    /\ event.op = "fetchOk"
    /\ applied = 1
    /\ entities = event.resp[1].data

\* the draft is what beginEdit made of the row being edited: no input has
\* changed it since
DraftUntouched == isEditing /\ formData = EditFormData(props, RecordById(props, editId))

\* C19: a submit right after beginEdit(r), the draft untouched, issues a PUT
\* whose body holds the form fields of r, with the values beginEdit put in
\* the draft, and no other field: no _id, no field missing from formFields.
C19_BodyIsFormFields ==
    [][(event'.op = "submit" /\ DraftUntouched) =>
          \A c \in Issued :
              LET body == c.request.body[1]
                  r == RecordById(props, editId)
              IN  /\ c.request.method = "PUT"
                  /\ DOMAIN body = DOMAIN r \cap FieldNames(props)
                  /\ \A f \in DOMAIN r \cap FieldNames(props) : Get(body, f) = formData[f]]_vars

\* the PUT of an untouched draft is in flight and its body carries _id
C19_Witness ==
    \E c \in pending :
        /\ c.op = "submit"
        /\ c.request.method = "PUT"
        /\ c.atIssue.formData = EditFormData(props, RecordById(props, c.atIssue.editId))
        /\ "_id" \in DOMAIN c.request.body[1]
        /\ c.request.body[1]._id = c.atIssue.editId

\* the YYYY-MM-DD part of a timestamp as written
DatePartOf(s) == <<s[1]>>

\* C20: beginEdit(record) makes the draft a copy of record in which every
\* form field of type date holding a timestamp, whatever its UTC offset,
\* holds the date part of that timestamp as written; every other field is
\* copied unchanged.
C20_EditNormalizesDates ==
    [][event'.op = "edit" =>
          \E entity \in RowsShown :
              /\ editId' = Get(entity, "_id")
              /\ DOMAIN formData' = DOMAIN entity
              /\ \A f \in DOMAIN entity :
                    formData'[f] = IF f \in FieldsOfType(props, "date") /\ IsTimestamp(entity[f])
                                   THEN DatePartOf(entity[f])
                                   ELSE entity[f]]_vars

\* the row dated 2024-03-05T00:00:00+02:00 is being edited and the draft
\* says 2024-03-04
C20_Witness ==
    /\ props = RawMaterialCostSchema
    /\ event.op = "edit"
    /\ formData.effective_date = <<"2024-03-04">>
    /\ RecordById(props, editId).effective_date = <<"2024-03-05", "T", "00", ":00:00", "+02:00">>
    /\ formData.currency = RecordById(props, editId).currency

\* the answer delivered by the last step had a non-success status
NonSuccessStatus(ev) == ev.resp # << >> /\ ev.resp[1].net /\ ~ev.resp[1].ok

\* C21: for every response with a non-success status the transport call
\* throws, with the body's error field when the body has one and with
\* "Something went wrong" otherwise: when the body has no error field and
\* when the body does not parse.
C21_StatusFailureMessage ==
    NonSuccessStatus(event) =>
        event.thrown = <<IF event.resp[1].parses /\ event.resp[1].error # EmptyStr
                         THEN event.resp[1].error
                         ELSE <<"Something went wrong">>>>

\* a non-success answer whose body does not parse: the parser's message is
\* what the call threw
C21_Witness ==
    /\ NonSuccessStatus(event)
    /\ ~event.resp[1].parses
    /\ event.thrown = << <<"Unexpected end of JSON input">> >>

\* the last step delivered the outcome of a transport call
CallSettled(ev) == ev.resp # << >>

\* the request line console.error prints for a method and the url of a path
LogLine(method, path) == <<"API Call Error (", method, " ">> \o API_BASE_URL \o path \o <<"):">>

\* C22: a transport call that fails (host unreachable, body malformed,
\* non-success status) writes exactly one log entry, which carries the
\* method and the URL of the request and the very error the caller then
\* receives; a call that succeeds writes none.
C22_FailuresLoggedOnce ==
    [][CallSettled(event') =>
          \A c \in pending : c \notin pending' =>
              IF event'.thrown # << >>
              THEN /\ Len(event'.log) = 1
                   /\ event'.log[1].text = LogLine(c.request.method, PathOf(c.request))
                   /\ event'.log[1].error = event'.thrown[1]
                   /\ event'.resp[1] \in FailureResponses \cup {NoContent}
              ELSE /\ event'.log = << >>
                   /\ event'.resp[1].net /\ event'.resp[1].parses /\ event'.resp[1].ok]_vars

\* the POST of a supplier was rejected as a duplicate and logged once
C22_Witness ==
    /\ props = SupplierSchema
    /\ event.op = "submitFail"
    /\ event.thrown = << <<"duplicate">> >>
    /\ event.log = << [text |-> <<"API Call Error (", "POST", " ",
                                  "http://localhost:5000/api", "/suppliers", "):">>,
                       error |-> <<"duplicate">>] >>

SegmentsAfterEndpoint(p, path) ==
    Cardinality({i \in (Len(p.endpoint) + 1)..Len(path) : path[i] = "/"})

\* C24: the path of every update and delete has, after the endpoint, exactly
\* as many segments as the schema has identifier fields, also when an
\* identifier value contains "/".
C24_OneSegmentPerField ==
    \A c \in pending :
        c.request.method \in {"PUT", "DELETE"} =>
            SegmentsAfterEndpoint(props, PathOf(c.request)) = Len(props.uniqueIdentifierFields)

\* the DELETE of the supplier SUP/002 is in flight to /suppliers/SUP/002
C24_Witness ==
    /\ props = SupplierSchema
    /\ \E c \in pending :
          /\ c.op = "delete"
          /\ c.arg[1].supplier_id = <<"SUP", "/", "002">>
          /\ PathOf(c.request) = <<"/suppliers", "/", "SUP", "/", "002">>

\* C25: a DELETE is issued only by the step in which the user confirms the
\* deletion; the step in which the user declines issues and completes no
\* request and changes no state variable, error included.
C25_DeclinedDeleteChangesNothing ==
    [][/\ (\E c \in Issued : c.request.method = "DELETE") => event'.op = "delete"
       /\ event'.op = "delete" =>
             \E c \in Issued : c.op = "delete" /\ c.request.method = "DELETE"
       /\ event'.op = "deleteDeclined" =>
             /\ pending' = pending
             /\ nreq' = nreq
             /\ UNCHANGED <<entities, formData, isEditing, editId, editIdentifier,
                            loading, error>>]_vars

\* the user has just declined a deletion under a displayed error
C25_Witness ==
    /\ event.op = "deleteDeclined"
    /\ error # EmptyStr
    /\ entities # << >>
    /\ pending = {}

\* an edit begun after the call c was issued is open
EditBegunSince(c) == isEditing /\ (~c.atIssue.isEditing \/ editId # c.atIssue.editId)

\* C26: when a submit completes successfully after the user has, meanwhile,
\* begun editing another record, the completion leaves the mode Edit and
\* leaves the draft and editIdentifier of that newer edit.
C26_CompletionSparesNewEdit ==
    [][\A c \in pending :
          (c \notin pending' /\ event'.op = "submitOk" /\ phase = "mounted" /\ EditBegunSince(c)) =>
              /\ isEditing'
              /\ formData' = formData
              /\ editIdentifier' = editIdentifier]_vars

\* a POST has just succeeded and reset the form although, when it completed,
\* the user was editing a row
C26_Witness ==
    /\ event.op = "submitOk"
    /\ event.method = "POST"
    /\ ~isEditing
    /\ formData = EmptyObj
    /\ editIdentifier = EmptyObj
    /\ \E c \in pending :
          /\ c.op = "fetch"
          /\ c.atIssue.isEditing
          /\ c.atIssue.editId # Null
          /\ c.atIssue.formData # EmptyObj

\* the rows of the table that editIdentifier addresses
RowsAddressed == {r \in Range(entities) : EditIdentifierOf(props, r) = editIdentifier}

\* C27: whenever the mode is Edit and no request is in flight,
\* editIdentifier is the identifier of a row of records; so after the record
\* being edited was deleted and the table refreshed, the mode is not Edit.
C27_EditAddressesListedRow ==
    (phase = "mounted" /\ isEditing /\ pending = {}) => RowsAddressed # {}

\* the refresh after a delete has arrived without the row being edited:
\* still Edit mode, and a submit would PUT to the path of that row
C27_Witness ==
    /\ phase = "mounted"
    /\ isEditing
    /\ pending = {}
    /\ event.op = "fetchOk"
    /\ nreq = 3
    /\ RowsAddressed = {}
    /\ SubmitRequest.method = "PUT"
    /\ PathOf(SubmitRequest) = DeclaredPath(props, RecordById(props, editId))

\* C28: in every state the mode is Add exactly when editIdentifier is empty
\* and editId is null; in Edit mode editIdentifier holds a value for every
\* identifier field and editId is the _id of a record.
C28_ModeIdentifierCoupled ==
    /\ ~isEditing <=> (editIdentifier = EmptyObj /\ editId = Null)
    /\ isEditing =>
          /\ DOMAIN editIdentifier = Range(props.uniqueIdentifierFields)
          /\ editId # Null
          /\ editIdentifier = EditIdentifierOf(props, RecordById(props, editId))

\* beginEdit on a row of the 3-field schema has just set the three together
C28_Witness ==
    /\ props = RawMaterialCostSchema
    /\ event.op = "edit"
    /\ isEditing
    /\ editId = <<"65f0c1">>
    /\ editIdentifier = [product_id |-> <<"PRD001">>, supplier_id |-> <<"SUP001">>,
                         effective_date |-> <<"2024-03-05", "T", "00", ":00:00", "Z">>]

\* C29: after its teardown the instance issues no request: a submit or a
\* delete that was in flight at teardown and then succeeds does not issue
\* its follow-up GET of the endpoint.
C29_NoRequestAfterTeardown ==
    [][phase = "unmounted" => (Issued = {} /\ nreq' = nreq)]_vars

\* a DELETE in flight at teardown has succeeded afterwards and its follow-up
\* GET is in flight
C29_Witness ==
    /\ phase = "unmounted"
    /\ event.op = "deleteOk"
    /\ \E c \in pending :
          /\ c.op = "fetch"
          /\ c.id = nreq
          /\ c.request = FetchRequest

\* C30: whenever a fetchAll of the instance is outstanding, loading is true;
\* of two overlapping fetchAll calls, the completion of the first leaves
\* loading true while the second is in flight.
C30_LoadingWhileFetching ==
    (phase = "mounted" /\ FetchesOutstanding # {}) => loading

\* the first of two overlapping fetches has completed: the spinner is off
\* and the second is still in flight
C30_Witness ==
    /\ phase = "mounted"
    /\ event.op \in {"fetchOk", "fetchFail"}
    /\ ~loading
    /\ Cardinality(FetchesOutstanding) = 1

\* C32: an input change for field n with value v makes draft[n] = v, leaves
\* every other field of the draft, leaves records, mode, editId,
\* editIdentifier, loading and error, and issues and completes no request.
C32_InputChangeFrame ==
    [][event'.op = "input" =>
          /\ \E n \in FieldNames(props) :
                /\ DOMAIN formData' = DOMAIN formData \cup {n}
                /\ formData'[n] = TypedValue(props, n)
                /\ \A f \in DOMAIN formData \ {n} : formData'[f] = formData[f]
          /\ UNCHANGED <<entities, isEditing, editId, editIdentifier, loading, error>>
          /\ pending' = pending
          /\ nreq' = nreq]_vars

\* while editing a store limit the user has typed a new location: the other
\* fields of the draft are those of the row
C32_Witness ==
    /\ props = StoreLimitSchema
    /\ event.op = "input"
    /\ isEditing
    /\ formData.location_id = <<"NEW">>
    /\ formData.product_id = <<"PRD003">>
    /\ formData.base_limit = <<"10">>
    /\ formData._id = editId

\* C31: a submit invoked while a POST of this instance with the same body is
\* still in flight issues no second POST with that body.
C31_NoDuplicatePost ==
    [][event'.op = "submit" =>
          \A c \in Issued : \A d \in pending :
              ~(/\ d.op = "submit"
                /\ d.request.method = "POST"
                /\ c.request.method = "POST"
                /\ c.request.body = d.request.body)]_vars

C31_Witness ==
    \E c, d \in pending :
        /\ c.id # d.id
        /\ c.op = "submit" /\ d.op = "submit"
        /\ c.request.method = "POST" /\ d.request.method = "POST"
        /\ c.request.body = d.request.body
        /\ ~isEditing

\* C33: a send of a non-empty input appends one user message and issues one
\* request carrying the input and, as history, all the messages before it
\* with agent messages tagged "system"; the completion of the request
\* (success or failure) appends one agent message and resets loading; a send
\* of an empty or whitespace-only input changes nothing and issues nothing.
C33_ChatSend ==
    [][/\ event'.op \in {"send", "sendEmpty"} =>
            IF \A i \in 1..Len(chat.input) : chat.input[i] \in Whitespace
            THEN chat' = chat /\ nreq' = nreq
            ELSE /\ chat'.messages = Append(chat.messages, [sender |-> "user", message |-> chat.input])
                 /\ \A i \in 1..Len(chat.messages) :
                        chat.messages[i].sender = IF i % 2 = 1 THEN "user" ELSE "agent"
                 /\ Len(chat.messages) % 2 = 0
                 /\ nreq' = nreq + 1
                 /\ \E c \in chat'.pending :
                        /\ chat'.pending = chat.pending \cup {c}
                        /\ c \notin chat.pending
                        /\ c.request.method = "POST"
                        /\ c.request.url = API_BASE_URL \o <<"/chat">>
                        /\ c.request.body.message = chat.input
                        /\ Len(c.request.body.history) = Len(chat.messages)
                        /\ \A i \in 1..Len(chat.messages) :
                               /\ c.request.body.history[i].message = chat.messages[i].message
                               /\ c.request.body.history[i].sender =
                                     IF chat.messages[i].sender = "agent" THEN "system" ELSE "user"
       /\ event'.op \in {"sendOk", "sendFail"} =>
            /\ Len(chat'.messages) = Len(chat.messages) + 1
            /\ SubSeq(chat'.messages, 1, Len(chat.messages)) = chat.messages
            /\ chat'.messages[Len(chat'.messages)].sender = "agent"
            /\ chat.loading /\ ~chat'.loading
            /\ nreq' = nreq
            /\ Cardinality(chat.pending) = Cardinality(chat'.pending) + 1]_vars

C33_Witness ==
    /\ event.op = "send"
    /\ Len(chat.messages) = 5
    /\ chat.messages[3].message = <<" ", "run", " ">>
    /\ chat.messages[2].message = <<"Error: ", "HTTP error! status: ", "500", ". Please try again or check backend.">>
    /\ chat.messages[4].message = <<"3 open orders">>
    /\ \E c \in chat.pending : c.request.body.history[4].sender = "system"

\* C34: runAutomation, when invoked, sets loadingAutomation and clears the
\* automation error and log; its completion resets loadingAutomation on
\* every exit; on success it stores the returned log and issues one GET of
\* the optimization runs and one GET of the orders; on failure it sets the
\* automation error to the failure message, issues no request and leaves
\* the displayed runs and orders as they were.
C34_RunAutomation ==
    [][/\ event'.op = "runAutomation" =>
            /\ dash'.loadingAutomation
            /\ dash'.automationError = EmptyStr
            /\ dash'.automationLog = << >>
       /\ event'.op \in {"automationOk", "automationFail"} =>
            /\ dash.loadingAutomation
            /\ ~dash'.loadingAutomation
       /\ event'.op = "automationOk" =>
            LET result == event'.resp[1].data
                new == dash'.pending \ dash.pending
            IN  /\ "log" \in DOMAIN result => dash'.automationLog = result.log
                /\ Cardinality(new) = 2
                /\ \E r, o \in new :
                      /\ r.request = ApiRequest(<<"/optimization_runs">>, "GET", NoData)
                      /\ o.request = ApiRequest(<<"/orders">>, "GET", NoData)
                /\ nreq' = nreq + 2
       /\ event'.op = "automationFail" =>
            /\ dash'.automationError = event'.thrown[1]
            /\ dash'.automationError # EmptyStr
            /\ dash'.pending \subseteq dash.pending
            /\ nreq' = nreq
            /\ dash'.optimizationRuns = dash.optimizationRuns
            /\ dash'.orders = dash.orders]_vars

C34_Witness ==
    /\ event.op = "automationOk"
    /\ dash.automationLog = <<<<"ordered PRD003">>, <<"2 routes planned">>>>
    /\ ~dash.loadingAutomation
    /\ Len(dash.optimizationRuns) = 2
    /\ dash.optimizationRuns[1].run_id = <<"RUN2">>
    /\ Len(dash.orders) = 3
    /\ dash.orders[2].order_id = <<"ORD1">>
    /\ Cardinality(dash.pending) = 2

====
